---- MODULE Spec2Model ----
(***************************************************************************)
(* The Python binding of the Pulsar C++ consumer                           *)
(* (pulsar-client-cpp/python/src/consumer.cc) together with the native     *)
(* consumer it wraps.  The binding's wrappers are modelled step by step    *)
(* (interpreter lock released, native call, lock reacquired, result        *)
(* checked).  The native consumer (delivery queue, acknowledgment tracker, *)
(* lifecycle, redelivery) lives in the client library; it is modelled from *)
(* its specified contract.                                                 *)
(***************************************************************************)
EXTENDS Integers, Sequences, FiniteSets

\* ---------------------------------------------------------------- bounds
MaxId == 2
Capacity == 1
MaxCalls == 4
LiveCalls == 2

\* Two Python threads share the consumer.
Threads == {"t1", "t2"}
Ids == 1 .. MaxId
NoId == 0

\* ------------------------------------------------------- result codes
ResultOk == "Ok"
ConsumerNotReady == "ConsumerNotReady"
ConsumerClosed == "ConsumerClosed"
Timeout == "Timeout"
InvalidMessageId == "InvalidMessageId"
AlreadyClosed == "AlreadyClosed"
NoResult == "none"

VARIABLES
    state,        \* lifecycle of the native consumer
    queue,        \* Delivery Queue: sequence of message ids
    acked,        \* individually acknowledged ids above the watermark
    watermark,    \* cumulative acknowledgment watermark (0: none)
    delivered,    \* ids handed out by receive and not cleared by redelivery
    redeliverReq, \* ids the transport was asked to push again
    nextId,       \* next fresh id the transport will push
    calls,        \* number of Python calls made so far
    outstanding,  \* per id: accepted pushes not yet returned to Python
    held,         \* ids of the Message objects Python has received
    pc,           \* per thread: position in its wrapper
    op,           \* per thread: Python method being called
    arg,          \* per thread: message id argument (NoId: none)
    res,          \* per thread: native Result
    msg,          \* per thread: the wrapper's local Message (NoId: empty)
    outcome,      \* per thread: "none", "value" or "raised"
    gil           \* per thread: holds the interpreter lock

vars == <<state, queue, acked, watermark, delivered, redeliverReq, nextId,
          calls, outstanding, held, pc, op, arg, res, msg, outcome, gil>>

\* ------------------------------------------------------------ lifecycle
Open == {"Active", "Paused"}
Terminal == {"Unsubscribed", "Closed"}

\* The failure an operation gets outside a valid state.
StateError(s) == IF s = "Created" THEN ConsumerNotReady ELSE ConsumerClosed

Max(a, b) == IF a >= b THEN a ELSE b

Acknowledged(id) == id <= watermark \/ id \in acked

\* ------------------------------------------------------ binding wrappers
\* Each wrapper: the native method it calls, whether the call is bracketed
\* by Py_BEGIN_ALLOW_THREADS / Py_END_ALLOW_THREADS, whether the native
\* Result goes through CHECK_RESULT, and whether it returns the Message.
Consumer_unsubscribe ==
    [native |-> "unsubscribe", allowThreads |-> TRUE, check |-> TRUE, returnsMsg |-> FALSE]

\* Faulty variant: the blocking receive keeps the interpreter lock across the call.
Consumer_receive_KeepsLock ==
    [native |-> "receive", allowThreads |-> FALSE, check |-> TRUE, returnsMsg |-> TRUE]

\* Faulty variant: the blocking receive returns msg without CHECK_RESULT.
Consumer_receive_Unchecked ==
    [native |-> "receive", allowThreads |-> TRUE, check |-> FALSE, returnsMsg |-> TRUE]

Consumer_receive ==
    [native |-> "receive", allowThreads |-> TRUE, check |-> TRUE, returnsMsg |-> TRUE]

\* Faulty variant: the timed receive returns a fresh Message, not the one received.
Consumer_receive_timeout_DropsMsg ==
    [native |-> "receiveTimeout", allowThreads |-> TRUE, check |-> TRUE, returnsMsg |-> FALSE]

\* Faulty variant: the timed receive drops timeoutMs and calls consumer.receive(msg).
Consumer_receive_timeout_NoDeadline ==
    [native |-> "receive", allowThreads |-> TRUE, check |-> TRUE, returnsMsg |-> TRUE]

Consumer_receive_timeout ==
    [native |-> "receiveTimeout", allowThreads |-> TRUE, check |-> TRUE, returnsMsg |-> TRUE]

Consumer_acknowledge ==
    [native |-> "acknowledge", allowThreads |-> TRUE, check |-> TRUE, returnsMsg |-> FALSE]

Consumer_acknowledge_message_id ==
    [native |-> "acknowledge", allowThreads |-> TRUE, check |-> TRUE, returnsMsg |-> FALSE]

\* Faulty variant: the cumulative wrapper calls consumer.acknowledge(msg).
Consumer_acknowledge_cumulative_Single ==
    [native |-> "acknowledge", allowThreads |-> TRUE, check |-> TRUE, returnsMsg |-> FALSE]

Consumer_acknowledge_cumulative ==
    [native |-> "acknowledgeCumulative", allowThreads |-> TRUE, check |-> TRUE, returnsMsg |-> FALSE]

Consumer_acknowledge_cumulative_message_id ==
    [native |-> "acknowledgeCumulative", allowThreads |-> TRUE, check |-> TRUE, returnsMsg |-> FALSE]

\* Faulty variant: close calls consumer.unsubscribe(), as the wrapper above it does.
Consumer_close_Unsubscribes ==
    [native |-> "unsubscribe", allowThreads |-> TRUE, check |-> TRUE, returnsMsg |-> FALSE]

Consumer_close ==
    [native |-> "close", allowThreads |-> TRUE, check |-> TRUE, returnsMsg |-> FALSE]

\* Faulty variant: the pause wrapper drops the native Result.
Consumer_pauseMessageListener_Unchecked ==
    [native |-> "pauseMessageListener", allowThreads |-> FALSE, check |-> FALSE, returnsMsg |-> FALSE]

Consumer_pauseMessageListener ==
    [native |-> "pauseMessageListener", allowThreads |-> FALSE, check |-> TRUE, returnsMsg |-> FALSE]

Consumer_resumeMessageListener ==
    [native |-> "resumeMessageListener", allowThreads |-> FALSE, check |-> TRUE, returnsMsg |-> FALSE]

\* Faulty variant: the name is bound to the wrong member of Consumer.
redeliver_unacknowledged_messages_Resume ==
    [native |-> "resumeMessageListener", allowThreads |-> FALSE,
     check |-> FALSE, returnsMsg |-> FALSE]

\* Bound directly to the native method, which returns nothing.
redeliver_unacknowledged_messages ==
    [native |-> "redeliverUnacknowledgedMessages", allowThreads |-> FALSE,
     check |-> FALSE, returnsMsg |-> FALSE]

\* Overloads taking a Message, taking a MessageId, taking nothing.
MessageMethods == {"acknowledge", "acknowledge_cumulative"}
MessageIdMethods == {"acknowledge_message_id", "acknowledge_cumulative_message_id"}
Methods ==
    {"unsubscribe", "receive", "receive_timeout", "close",
     "pause_message_listener", "resume_message_listener",
     "redeliver_unacknowledged_messages"} \cup MessageMethods \cup MessageIdMethods

export_consumer ==
    [m \in Methods |->
        CASE m = "unsubscribe" -> Consumer_unsubscribe
          [] m = "receive" -> Consumer_receive
          [] m = "receive_timeout" -> Consumer_receive_timeout
          [] m = "acknowledge" -> Consumer_acknowledge
          [] m = "acknowledge_message_id" -> Consumer_acknowledge_message_id
          [] m = "acknowledge_cumulative" -> Consumer_acknowledge_cumulative
          [] m = "acknowledge_cumulative_message_id" -> Consumer_acknowledge_cumulative_message_id
          [] m = "close" -> Consumer_close
          [] m = "pause_message_listener" -> Consumer_pauseMessageListener
          [] m = "resume_message_listener" -> Consumer_resumeMessageListener
          [] m = "redeliver_unacknowledged_messages" -> redeliver_unacknowledged_messages]

NoMethod == "none"
Wrapper(t) == export_consumer[op[t]]

\* CHECK_RESULT(res): raises unless the native Result is ResultOk.
CHECK_RESULT(r) == IF r = ResultOk THEN "value" ELSE "raised"

\* -------------------------------------------------------- initial state
Init ==
    /\ state = "Created"
    /\ queue = <<>>
    /\ acked = {}
    /\ watermark = 0
    /\ delivered = {}
    /\ redeliverReq = {}
    /\ nextId = 1
    /\ calls = 0
    /\ outstanding = [i \in Ids |-> 0]
    /\ held = {}
    /\ pc = [t \in Threads |-> "idle"]
    /\ op = [t \in Threads |-> NoMethod]
    /\ arg = [t \in Threads |-> NoId]
    /\ res = [t \in Threads |-> NoResult]
    /\ msg = [t \in Threads |-> NoId]
    /\ outcome = [t \in Threads |-> "none"]
    /\ gil = [t \in Threads |-> FALSE]

\* ------------------------------------------------- transport collaborator
\* subscribe completes: Created -> Active.
Subscribe ==
    /\ state = "Created"
    /\ state' = "Active"
    /\ UNCHANGED <<queue, acked, watermark, delivered, redeliverReq, nextId,
                   calls, outstanding, held, pc, op, arg, res, msg, outcome, gil>>

\* Faulty variant: push accepts a message whatever the queue holds.
push_Unbounded(id) ==
    /\ state \in Open
    /\ queue' = Append(queue, id)
    /\ outstanding' = [outstanding EXCEPT ![id] = @ + 1]

\* Delivery Queue push: accepted on an open consumer below capacity.
push(id) ==
    /\ state \in Open
    /\ Len(queue) < Capacity
    /\ queue' = Append(queue, id)
    /\ outstanding' = [outstanding EXCEPT ![id] = @ + 1]

\* The transport pushes the next fresh message.
PushNew ==
    /\ nextId <= MaxId
    /\ push(nextId)
    /\ nextId' = nextId + 1
    /\ UNCHANGED <<state, acked, watermark, delivered, redeliverReq, calls,
                   held, pc, op, arg, res, msg, outcome, gil>>

\* The transport pushes again a message it was asked to redeliver.
PushAgain ==
    \E id \in redeliverReq :
        /\ push(id)
        /\ redeliverReq' = redeliverReq \ {id}
        /\ UNCHANGED <<state, acked, watermark, delivered, nextId, calls,
                       held, pc, op, arg, res, msg, outcome, gil>>

\* ------------------------------------------------------ wrapper steps
GilFree == \A u \in Threads : ~gil[u]

\* A Python thread, holding the interpreter lock, calls a method of the
\* Consumer object.  A Message argument is one a receive returned earlier.
CallWithin(t, budget) ==
    /\ pc[t] = "idle"
    /\ GilFree
    /\ calls < budget
    /\ calls' = calls + 1
    /\ \E m \in Methods, id \in Ids \cup {NoId} :
        /\ m \in MessageMethods => id \in Ids /\ id \in held
        /\ m \in MessageIdMethods => id \in Ids
        /\ m \notin MessageMethods \cup MessageIdMethods => id = NoId
        /\ op' = [op EXCEPT ![t] = m]
        /\ arg' = [arg EXCEPT ![t] = id]
    /\ pc' = [pc EXCEPT ![t] = "entered"]
    /\ gil' = [gil EXCEPT ![t] = TRUE]
    /\ UNCHANGED <<state, queue, acked, watermark, delivered, redeliverReq, nextId,
                   outstanding, held, res, msg, outcome>>

Call(t) == CallWithin(t, MaxCalls)

\* Py_BEGIN_ALLOW_THREADS: the wrapper gives up the interpreter lock.
Py_BEGIN_ALLOW_THREADS(t) ==
    /\ pc[t] = "entered"
    /\ Wrapper(t).allowThreads
    /\ pc' = [pc EXCEPT ![t] = "allow"]
    /\ gil' = [gil EXCEPT ![t] = FALSE]
    /\ UNCHANGED <<state, queue, acked, watermark, delivered, redeliverReq, nextId,
                   calls, outstanding, held, op, arg, res, msg, outcome>>

\* Py_END_ALLOW_THREADS: the wrapper waits for the interpreter lock and
\* takes it back.
Py_END_ALLOW_THREADS(t) ==
    /\ pc[t] = "native_done"
    /\ GilFree
    /\ pc' = [pc EXCEPT ![t] = "locked"]
    /\ gil' = [gil EXCEPT ![t] = TRUE]
    /\ UNCHANGED <<state, queue, acked, watermark, delivered, redeliverReq, nextId,
                   calls, outstanding, held, op, arg, res, msg, outcome>>

\* Faulty variant: the result is checked without waiting for Py_END_ALLOW_THREADS.
Finish_Unlocked(t) ==
    /\ pc[t] \in {"native_done", "locked"}
    /\ LET w == Wrapper(t)
           out == IF w.check THEN CHECK_RESULT(res[t]) ELSE "value"
       IN /\ outcome' = [outcome EXCEPT ![t] = out]
          /\ IF out = "value" /\ w.returnsMsg /\ msg[t] # NoId
             THEN /\ outstanding' = [outstanding EXCEPT ![msg[t]] = @ - 1]
                  /\ held' = held \cup {msg[t]}
             ELSE UNCHANGED <<outstanding, held>>
    /\ pc' = [pc EXCEPT ![t] = "done"]
    /\ UNCHANGED <<state, queue, acked, watermark, delivered, redeliverReq, nextId,
                   calls, op, arg, res, msg, gil>>

\* The wrapper's last statements: CHECK_RESULT(res) raises the native
\* failure, otherwise the wrapper returns (the Message, for a receive).
Finish(t) ==
    /\ pc[t] = "locked"
    /\ LET w == Wrapper(t)
           out == IF w.check THEN CHECK_RESULT(res[t]) ELSE "value"
       IN /\ outcome' = [outcome EXCEPT ![t] = out]
          /\ IF out = "value" /\ w.returnsMsg /\ msg[t] # NoId
             THEN /\ outstanding' = [outstanding EXCEPT ![msg[t]] = @ - 1]
                  /\ held' = held \cup {msg[t]}
             ELSE UNCHANGED <<outstanding, held>>
    /\ pc' = [pc EXCEPT ![t] = "done"]
    /\ UNCHANGED <<state, queue, acked, watermark, delivered, redeliverReq, nextId,
                   calls, op, arg, res, msg, gil>>

\* Back in Python: the caller has its value or exception, and the
\* interpreter lock goes to whichever thread runs next.
Return(t) ==
    /\ pc[t] = "done"
    /\ pc' = [pc EXCEPT ![t] = "idle"]
    /\ op' = [op EXCEPT ![t] = NoMethod]
    /\ arg' = [arg EXCEPT ![t] = NoId]
    /\ res' = [res EXCEPT ![t] = NoResult]
    /\ msg' = [msg EXCEPT ![t] = NoId]
    /\ outcome' = [outcome EXCEPT ![t] = "none"]
    /\ gil' = [gil EXCEPT ![t] = FALSE]
    /\ UNCHANGED <<state, queue, acked, watermark, delivered, redeliverReq, nextId,
                   calls, outstanding, held>>

\* ---------------------------------------------------- native consumer
\* The thread is at its native call: after Py_BEGIN_ALLOW_THREADS, or
\* directly after entry in a wrapper that keeps the interpreter lock.
AtNative(t, name) ==
    /\ op[t] # NoMethod
    /\ Wrapper(t).native = name
    /\ pc[t] = IF Wrapper(t).allowThreads THEN "allow" ELSE "entered"

AfterNative(t) == IF Wrapper(t).allowThreads THEN "native_done" ELSE "locked"

\* The native call of thread t ends with Result r.
Result(t, r) ==
    /\ res' = [res EXCEPT ![t] = r]
    /\ pc' = [pc EXCEPT ![t] = AfterNative(t)]

\* The native call fails and changes nothing.
Fail(t, r) ==
    /\ Result(t, r)
    /\ UNCHANGED <<state, queue, acked, watermark, delivered, redeliverReq, msg>>

\* The head of the Delivery Queue goes to thread t's receive.
Take(t) ==
    /\ msg' = [msg EXCEPT ![t] = Head(queue)]
    /\ queue' = Tail(queue)
    /\ delivered' = delivered \cup {Head(queue)}
    /\ Result(t, ResultOk)
    /\ UNCHANGED <<state, acked, watermark, redeliverReq>>

\* Consumer::receive(msg) and Consumer::receive(msg, timeoutMs): fail
\* outside a valid state, take a buffered message, or start waiting.
receive(t) ==
    /\ AtNative(t, "receive") \/ AtNative(t, "receiveTimeout")
    /\ IF state \notin Open THEN Fail(t, StateError(state))
       ELSE IF queue # <<>> THEN Take(t)
       ELSE /\ pc' = [pc EXCEPT ![t] = "waiting"]
            /\ UNCHANGED <<state, queue, acked, watermark, delivered, redeliverReq, msg, res>>
    /\ UNCHANGED <<nextId, calls, outstanding, held, op, arg, outcome, gil>>

\* A waiting receive wakes: the consumer was closed or unsubscribed, or a
\* message arrived.
Wake(t) ==
    /\ pc[t] = "waiting"
    /\ state \in Terminal \/ queue # <<>>
    /\ IF state \in Terminal THEN Fail(t, ConsumerClosed) ELSE Take(t)
    /\ UNCHANGED <<nextId, calls, outstanding, held, op, arg, outcome, gil>>

\* A waiting timed receive reaches its deadline with nothing to take.
TimeoutExpires(t) ==
    /\ pc[t] = "waiting"
    /\ Wrapper(t).native = "receiveTimeout"
    /\ state \in Open
    /\ queue = <<>>
    /\ Fail(t, Timeout)
    /\ UNCHANGED <<nextId, calls, outstanding, held, op, arg, outcome, gil>>

\* Consumer::unsubscribe(): Open -> Unsubscribed; a duplicate fails.
unsubscribe(t) ==
    /\ AtNative(t, "unsubscribe")
    /\ IF state = "Created" THEN Fail(t, ConsumerNotReady)
       ELSE IF state \in Terminal THEN Fail(t, AlreadyClosed)
       ELSE /\ state' = "Unsubscribed"
            /\ queue' = <<>>
            /\ Result(t, ResultOk)
            /\ UNCHANGED <<acked, watermark, delivered, redeliverReq, msg>>
    /\ UNCHANGED <<nextId, calls, outstanding, held, op, arg, outcome, gil>>

\* Consumer::close(): always succeeds and leaves the consumer Closed.
close(t) ==
    /\ AtNative(t, "close")
    /\ state' = "Closed"
    /\ queue' = <<>>
    /\ Result(t, ResultOk)
    /\ UNCHANGED <<acked, watermark, delivered, redeliverReq, msg>>
    /\ UNCHANGED <<nextId, calls, outstanding, held, op, arg, outcome, gil>>

\* Consumer::acknowledge(msg) / acknowledge(msgId): marks one id; a
\* repeated or subsumed acknowledgment changes nothing.
acknowledge(t) ==
    /\ AtNative(t, "acknowledge")
    /\ IF state \notin Open THEN Fail(t, StateError(state))
       ELSE /\ acked' = IF Acknowledged(arg[t]) THEN acked ELSE acked \cup {arg[t]}
            /\ Result(t, ResultOk)
            /\ UNCHANGED <<state, queue, watermark, delivered, redeliverReq, msg>>
    /\ UNCHANGED <<nextId, calls, outstanding, held, op, arg, outcome, gil>>

\* Consumer::acknowledgeCumulative(msg) / acknowledgeCumulative(msgId):
\* raises the watermark to the id and drops the individual entries it
\* subsumes; an id never delivered is refused.
acknowledgeCumulative(t) ==
    /\ AtNative(t, "acknowledgeCumulative")
    /\ IF state \notin Open THEN Fail(t, StateError(state))
       ELSE IF arg[t] \notin delivered THEN Fail(t, InvalidMessageId)
       ELSE /\ watermark' = Max(watermark, arg[t])
            /\ acked' = {y \in acked : y > Max(watermark, arg[t])}
            /\ Result(t, ResultOk)
            /\ UNCHANGED <<state, queue, delivered, redeliverReq, msg>>
    /\ UNCHANGED <<nextId, calls, outstanding, held, op, arg, outcome, gil>>

\* Consumer::pauseMessageListener(): Open -> Paused.
pauseMessageListener(t) ==
    /\ AtNative(t, "pauseMessageListener")
    /\ IF state \notin Open THEN Fail(t, StateError(state))
       ELSE /\ state' = "Paused"
            /\ Result(t, ResultOk)
            /\ UNCHANGED <<queue, acked, watermark, delivered, redeliverReq, msg>>
    /\ UNCHANGED <<nextId, calls, outstanding, held, op, arg, outcome, gil>>

\* Consumer::resumeMessageListener(): Open -> Active.
resumeMessageListener(t) ==
    /\ AtNative(t, "resumeMessageListener")
    /\ IF state \notin Open THEN Fail(t, StateError(state))
       ELSE /\ state' = "Active"
            /\ Result(t, ResultOk)
            /\ UNCHANGED <<queue, acked, watermark, delivered, redeliverReq, msg>>
    /\ UNCHANGED <<nextId, calls, outstanding, held, op, arg, outcome, gil>>

\* The ids delivered and not acknowledged.
Unacknowledged == {id \in delivered : ~Acknowledged(id)}

\* Consumer::redeliverUnacknowledgedMessages(): asks the transport to push
\* the unacknowledged ids again and forgets that they were delivered.
redeliverUnacknowledgedMessages(t) ==
    /\ AtNative(t, "redeliverUnacknowledgedMessages")
    /\ IF state \in Open
       THEN /\ redeliverReq' = redeliverReq \cup Unacknowledged
            /\ delivered' = delivered \ Unacknowledged
       ELSE UNCHANGED <<redeliverReq, delivered>>
    /\ Result(t, ResultOk)
    /\ UNCHANGED <<state, queue, acked, watermark, msg>>
    /\ UNCHANGED <<nextId, calls, outstanding, held, op, arg, outcome, gil>>

\* -------------------------------------------------------- specification
\* A thread's steps other than starting a new call.
Proceed(t) ==
    \/ Py_BEGIN_ALLOW_THREADS(t)
    \/ receive(t)
    \/ Wake(t)
    \/ TimeoutExpires(t)
    \/ unsubscribe(t)
    \/ close(t)
    \/ acknowledge(t)
    \/ acknowledgeCumulative(t)
    \/ pauseMessageListener(t)
    \/ resumeMessageListener(t)
    \/ redeliverUnacknowledgedMessages(t)
    \/ Py_END_ALLOW_THREADS(t)
    \/ Finish(t)
    \/ Return(t)

Next ==
    \/ Subscribe
    \/ PushNew
    \/ PushAgain
    \/ \E t \in Threads : Call(t) \/ Proceed(t)

Spec == Init /\ [][Next]_vars

ReceiveMethods == {"receive", "receive_timeout"}
AckMethods == {"acknowledge", "acknowledge_message_id"}
CumulativeMethods == {"acknowledge_cumulative", "acknowledge_cumulative_message_id"}

\* Thread t takes the step that ends its native call.
NativeReturns(t) ==
    /\ pc[t] \in {"allow", "entered", "waiting"}
    /\ pc'[t] \in {"native_done", "locked"}

InQueue(id) == Cardinality({i \in 1 .. Len(queue) : queue[i] = id})

\* Messages a native receive has handed over and the wrapper has not yet
\* returned to Python.
InFlight(id) == Cardinality({t \in Threads : msg[t] = id /\ pc[t] # "done"})

\* ------------------------------------------------------------------ C1
\* C1: every accepted push is handed to exactly one receive call.  Per id,
\* the pushes not yet returned to Python never fall below the copies still
\* buffered or in a receive's hands (no message is returned twice), and on
\* an open consumer they are exactly those copies (no message is lost).
C1_ExactlyOnce ==
    \A id \in Ids :
        /\ outstanding[id] >= InQueue(id) + InFlight(id)
        /\ state \in Open => outstanding[id] = InQueue(id) + InFlight(id)

\* Both threads are in receive calls: one has returned a message to Python,
\* the other holds a different message, on an open consumer.
C1_Witness ==
    \E t, u \in Threads :
        /\ t # u /\ state \in Open
        /\ op[t] \in ReceiveMethods /\ pc[t] = "done" /\ outcome[t] = "value"
        /\ op[u] \in ReceiveMethods /\ pc[u] = "native_done" /\ res[u] = ResultOk
        /\ msg[t] \in Ids /\ msg[u] \in Ids /\ msg[t] # msg[u]

\* ------------------------------------------------------------------ C7
\* C7: the Delivery Queue never holds more messages than its capacity.
C7_QueueBounded == Len(queue) <= Capacity

\* The queue is full on an open consumer while the transport has another
\* message to push.
C7_Witness ==
    /\ state \in Open
    /\ Len(queue) = Capacity
    /\ nextId <= MaxId \/ redeliverReq # {}

\* ----------------------------------------------------------------- C10
\* C10: the interpreter lock is given up only around the native call.  At
\* most one thread holds it; a thread holds it on entry, once
\* Py_END_ALLOW_THREADS is passed and when its wrapper returns or raises,
\* and does not hold it in between; a receive wrapper hands a message to
\* Python only when the native Result is ResultOk.
C10_LockDiscipline ==
    /\ Cardinality({t \in Threads : gil[t]}) <= 1
    /\ \A t \in Threads :
        /\ gil[t] <=> pc[t] \in {"entered", "locked", "done"}
        /\ pc[t] \in {"allow", "waiting", "native_done"} => Wrapper(t).allowThreads
        /\ (pc[t] = "done" /\ op[t] \in ReceiveMethods /\ outcome[t] = "value")
              => res[t] = ResultOk /\ msg[t] \in Ids

\* One thread has reacquired the lock after a failed timed receive and
\* raised, while the other is inside its native call without the lock.
C10_Witness ==
    \E t, u \in Threads :
        /\ pc[t] = "done" /\ op[t] = "receive_timeout" /\ outcome[t] = "raised" /\ gil[t]
        /\ pc[u] = "native_done" /\ op[u] = "close" /\ ~gil[u]

\* ------------------------------------------------------------------ C4
\* C4: a thread blocked in receive or timed receive does not hold the
\* interpreter lock, so no other thread is held up by it: another thread
\* can start a call when the lock is free, and a call it has started can
\* take its next step, or the thread that holds the lock can, whichever
\* method it is.
C4_BlockedWithoutLock ==
    \A t \in Threads :
        pc[t] = "waiting" =>
            /\ ~gil[t]
            /\ \A u \in Threads \ {t} :
                /\ (pc[u] = "idle" /\ calls < MaxCalls /\ GilFree) => ENABLED Call(u)
                /\ pc[u] \notin {"idle", "waiting"} =>
                      \/ ENABLED Proceed(u)
                      \/ \E w \in Threads \ {t, u} : gil[w] /\ ENABLED Proceed(w)

\* A pause completed on one thread while the other is blocked in receive.
C4_Witness ==
    \E t, u \in Threads :
        /\ pc[t] = "waiting" /\ op[t] = "receive"
        /\ pc[u] = "done" /\ op[u] = "pause_message_listener" /\ outcome[u] = "value"
        /\ state = "Paused"

\* ------------------------------------------------------------------ C3
\* C3: close never raises and leaves the consumer Closed, whatever state it
\* is called in; nothing leaves Closed, and a close of a Closed consumer
\* changes nothing of the consumer.
C3_CloseSteps ==
    \A t \in Threads :
        /\ state = "Closed" => state' = "Closed"
        /\ (op[t] = "close" /\ NativeReturns(t) /\ state = "Closed")
              => UNCHANGED <<state, queue, acked, watermark, delivered, redeliverReq>>

C3_CloseFailSafe ==
    /\ [](\A t \in Threads :
            /\ (op[t] = "close" /\ pc[t] \in {"native_done", "locked", "done"})
                  => res[t] = ResultOk /\ state = "Closed"
            /\ (op[t] = "close" /\ pc[t] = "done") => outcome[t] = "value")
    /\ [][C3_CloseSteps]_vars

\* Two closes race: both native calls are over, one wrapper has returned
\* normally and the other is about to take the lock back.
C3_Witness ==
    \E t, u \in Threads :
        /\ op[t] = "close" /\ pc[t] = "done" /\ outcome[t] = "value"
        /\ op[u] = "close" /\ pc[u] = "native_done" /\ res[u] = ResultOk
        /\ state = "Closed"

\* ------------------------------------------------------------------ C6
\* C6: a receive, acknowledge, acknowledgeCumulative, pause or resume whose
\* native call runs outside Active/Paused gets ConsumerNotReady (before
\* subscribe) or ConsumerClosed (after close or unsubscribe) and changes
\* nothing of the consumer, and the wrapper raises that failure.
C6Methods ==
    ReceiveMethods \cup AckMethods \cup CumulativeMethods
        \cup {"pause_message_listener", "resume_message_listener"}

C6_InvalidSteps ==
    \A t \in Threads :
        (op[t] \in C6Methods /\ NativeReturns(t) /\ state \notin Open)
            => /\ res'[t] = StateError(state)
               /\ UNCHANGED <<state, queue, acked, watermark, delivered, redeliverReq,
                              outstanding, held>>

C6_InvalidStateFails ==
    /\ [](\A t \in Threads :
            (op[t] \in C6Methods /\ pc[t] = "done" /\ res[t] # ResultOk)
                => outcome[t] = "raised")
    /\ [][C6_InvalidSteps]_vars

\* A pause on a closed consumer has raised ConsumerClosed.
C6_Witness ==
    \E t \in Threads :
        /\ op[t] = "pause_message_listener" /\ pc[t] = "done"
        /\ outcome[t] = "raised" /\ res[t] = ConsumerClosed /\ state \in Terminal

\* ------------------------------------------------------------------ C5
\* Thread t's cumulative acknowledgment of arg[t] succeeds in this step.
CumulativeSucceeds(t) ==
    /\ op[t] \in CumulativeMethods
    /\ NativeReturns(t)
    /\ res'[t] = ResultOk

\* Acknowledged(id) in the next state.
AcknowledgedNext(id) == id <= watermark' \/ id \in acked'

\* What a successful cumulative acknowledgment of x leaves for the ids at
\* or below x.
SubsumedBelow(x) ==
    \A y \in delivered :
        y <= x => AcknowledgedNext(y) /\ y \notin acked'

\* An individual acknowledge of an id at or below the watermark changes
\* nothing.
AckBelowWatermarkNoOp ==
    \A t \in Threads :
        (op[t] \in AckMethods /\ NativeReturns(t) /\ arg[t] <= watermark)
            => UNCHANGED <<acked, watermark>>

\* C5 as claimed: after acknowledgeCumulative(X) every delivered id above X
\* that is not individually acknowledged is still pending.
C5_Original ==
    [][/\ \A t \in Threads :
            CumulativeSucceeds(t) =>
                /\ SubsumedBelow(arg[t])
                /\ \A y \in delivered :
                      (y > arg[t] /\ y \notin acked') => ~AcknowledgedNext(y)
       /\ AckBelowWatermarkNoOp]_vars

\* C5 (amended): after acknowledgeCumulative(X) succeeds for a delivered id
\* X, every delivered id Y <= X is acknowledged and has no individual entry
\* left, a later individual acknowledge of such Y changes nothing, and
\* every delivered id above X that was not acknowledged before the call,
\* individually or by an earlier cumulative acknowledgment, is still
\* pending.
C5_CumulativeAck ==
    [][/\ \A t \in Threads :
            CumulativeSucceeds(t) =>
                /\ SubsumedBelow(arg[t])
                /\ \A y \in delivered :
                      (y > arg[t] /\ ~Acknowledged(y)) => ~AcknowledgedNext(y)
       /\ AckBelowWatermarkNoOp]_vars

\* Ids 1 and 2 were delivered, 1 was acknowledged cumulatively (the wrapper
\* has returned), 2 is still pending.
C5_Witness ==
    \E t \in Threads :
        /\ op[t] \in CumulativeMethods /\ pc[t] = "done" /\ outcome[t] = "value"
        /\ arg[t] = 1 /\ delivered = {1, 2}
        /\ Acknowledged(1) /\ ~Acknowledged(2) /\ acked = {}

\* ------------------------------------------------------------------ C9
\* Thread t's redelivery request runs on an open consumer in this step.
RedeliverRuns(t) ==
    /\ op[t] = "redeliver_unacknowledged_messages"
    /\ NativeReturns(t)
    /\ state \in Open

\* C9: a redelivery request on an open consumer leaves the lifecycle state
\* alone, asks the transport for exactly the delivered and unacknowledged
\* ids (none that is acknowledged) and forgets their delivery; an id asked
\* for counts as not delivered until it is pushed again, and the push is
\* accepted whenever the open queue has room.
C9_Redelivery ==
    /\ [](/\ redeliverReq \cap delivered = {}
          /\ \A id \in redeliverReq :
                (state \in Open /\ Len(queue) < Capacity) => ENABLED PushAgain)
    /\ [][\A t \in Threads :
            RedeliverRuns(t) =>
                /\ state' = state
                /\ redeliverReq' = redeliverReq \cup Unacknowledged
                /\ delivered' = delivered \ Unacknowledged
                /\ \A id \in redeliverReq' \ redeliverReq : ~Acknowledged(id)]_vars

\* A message Python already received once is in a receive's hands again,
\* after a redelivery request and a second push.
C9_Witness ==
    \E t \in Threads :
        /\ op[t] \in ReceiveMethods /\ pc[t] = "locked" /\ res[t] = ResultOk
        /\ msg[t] \in held /\ msg[t] \in delivered /\ state \in Open

\* ------------------------------------------------------------ fairness
\* A thread inside a wrapper keeps running: native calls, wake-ups and
\* deadlines happen, the lock holder finishes and lets go of the lock, and
\* a thread that keeps finding the lock free gets it.  Nothing obliges
\* Python to call, or the transport to push.
Fairness ==
    \A t \in Threads :
        /\ WF_vars(Py_BEGIN_ALLOW_THREADS(t))
        /\ WF_vars(receive(t) \/ Wake(t) \/ TimeoutExpires(t))
        /\ WF_vars(unsubscribe(t) \/ close(t) \/ acknowledge(t) \/ acknowledgeCumulative(t))
        /\ WF_vars(pauseMessageListener(t) \/ resumeMessageListener(t)
                     \/ redeliverUnacknowledgedMessages(t))
        /\ SF_vars(Py_END_ALLOW_THREADS(t))
        /\ WF_vars(Finish(t) \/ Return(t))

\* The same program with a smaller budget of calls.
CallFair(t) == CallWithin(t, LiveCalls)

FairNext ==
    \/ Subscribe
    \/ PushNew
    \/ PushAgain
    \/ \E t \in Threads : CallFair(t) \/ Proceed(t)

FairSpec == Init /\ [][FairNext]_vars /\ Fairness

\* ------------------------------------------------------------------ C2
\* C2: a receive that is blocked when the consumer becomes Closed or
\* Unsubscribed eventually returns, raising ConsumerClosed.
C2_CloseUnblocks ==
    \A t \in Threads :
        (pc[t] = "waiting" /\ state \in Terminal)
            ~> (pc[t] = "done" /\ outcome[t] = "raised" /\ res[t] = ConsumerClosed)

\* One thread is blocked in receive and the other's native close has just
\* closed the consumer.
C2_Witness ==
    \E t, u \in Threads :
        /\ pc[t] = "waiting" /\ op[t] = "receive"
        /\ op[u] = "close" /\ pc[u] = "native_done"
        /\ state = "Closed"

\* ------------------------------------------------------------------ C8
\* The native timed receive of thread t returns in this step.
TimedReturns(t) == op[t] = "receive_timeout" /\ NativeReturns(t)

\* C8: a timed receive always returns.  Its native call gives the head of
\* the queue when the open queue holds a message, Timeout when the open
\* queue is empty, and a failure of the lifecycle state otherwise; the
\* wrapper returns that message or raises that failure.
C8_TimedReceive ==
    /\ \A t \in Threads : (op[t] = "receive_timeout") ~> (pc[t] = "done")
    /\ [](\A t \in Threads :
            (op[t] = "receive_timeout" /\ pc[t] = "done") =>
                \/ outcome[t] = "value" /\ res[t] = ResultOk /\ msg[t] \in Ids
                \/ /\ outcome[t] = "raised" /\ msg[t] = NoId
                   /\ res[t] \in {Timeout, ConsumerClosed, ConsumerNotReady})
    /\ [][\A t \in Threads :
            TimedReturns(t) =>
                /\ (state \in Open /\ queue # <<>>)
                      => res'[t] = ResultOk /\ msg'[t] = Head(queue)
                /\ (state \in Open /\ queue = <<>>)
                      => res'[t] = Timeout /\ msg'[t] = NoId
                /\ state \notin Open => res'[t] = StateError(state)]_vars

\* A timed receive on an open, empty queue has raised Timeout.
C8_Witness ==
    \E t \in Threads :
        /\ op[t] = "receive_timeout" /\ pc[t] = "done"
        /\ outcome[t] = "raised" /\ res[t] = Timeout
        /\ state \in Open /\ queue = <<>>

====
